---- MODULE Spec2Model ----
(***************************************************************************)
(* Model of the YTsum summarization pipeline: the CLI run of src/main.py,  *)
(* the Streamlit run of src/app.py, and the pure components they call      *)
(* (timestamp formatter, keyframe sampler, transcript and visual           *)
(* formatters, prompt builder).                                            *)
(*                                                                         *)
(* Text is a sequence of string pieces in which a newline is always a      *)
(* piece of its own, so that joining, splitting and zero padding are       *)
(* computed and not assumed.  A Python float is an exact rational          *)
(* [n |-> numerator, d |-> denominator], d > 0.                            *)
(***************************************************************************)
EXTENDS Integers, Sequences, FiniteSets, TLC

VARIABLES
    env_key,         \* os.environ["OPENAI_API_KEY"]; "" when it is not set
    openai_api_key,  \* the module global openai.api_key
    key_writer,      \* the run that last assigned openai.api_key (0: nobody)
    cross,           \* accesses of one run to state last written by another
    files,           \* the download directories: path -> run that wrote it
    runs,            \* the pipeline runs in flight
    pin,             \* arguments of the component call under check
    pout             \* its result; Pending until the call has returned

vars == <<env_key, openai_api_key, key_writer, cross, files, runs, pin, pout>>

pipeVars == <<env_key, openai_api_key, key_writer, cross, files, runs>>

None == "None"

Pending == [done |-> FALSE]

----------------------------------------------------------------------------
(* Numbers and text *)

Rat(n, d) == [n |-> n, d |-> d]

RatEq(a, b) == a.n * b.d = b.n * a.d

RatLeq(a, b) == a.n * b.d <= b.n * a.d

RatSub(a, b) == Rat(a.n * b.d - b.n * a.d, a.d * b.d)

\* Python's x // k for a float x >= 0 and an integer k > 0, then int(): floor(x / k)
FloorDivInt(x, k) == x.n \div (x.d * k)

\* Python's x % k for a float x >= 0 and an integer k > 0: x - k * floor(x / k)
FloatMod(x, k) == Rat(x.n % (x.d * k), x.d)

\* round(x) of Python 3 for x = n/d >= 0: to the nearest integer, ties to even
PyRound(x) ==
    LET f == x.n \div x.d
        twice == 2 * (x.n % x.d)
    IN  IF twice < x.d THEN f
        ELSE IF twice > x.d THEN f + 1
        ELSE IF f % 2 = 0 THEN f ELSE f + 1

Digits == <<"0", "1", "2", "3", "4", "5", "6", "7", "8", "9">>

RECURSIVE Dec(_)
\* str(n) for an integer n >= 0
Dec(n) == IF n < 10 THEN <<Digits[n + 1]>> ELSE Dec(n \div 10) \o <<Digits[(n % 10) + 1]>>

\* the format spec ":02d": at least two digits, padded with zeros on the left
Fmt02d(n) == IF n < 10 THEN <<"0">> \o Dec(n) ELSE Dec(n)

RECURSIVE Str(_)
\* the characters of a text, concatenated into one string value
Str(cs) == IF cs = <<>> THEN "" ELSE Head(cs) \o Str(Tail(cs))

RECURSIVE JoinWith(_, _)
\* sep.join(parts)
JoinWith(sep, parts) ==
    IF parts = <<>> THEN <<>>
    ELSE IF Len(parts) = 1 THEN parts[1]
    ELSE parts[1] \o sep \o JoinWith(sep, Tail(parts))

----------------------------------------------------------------------------
(* AudioTranscriber._format_timestamp and VisionAnalyzer._format_timestamp *)

\* a formatter that wraps the hours at 24, as a time-of-day formatter would
FormatTimestampWrapped(seconds) ==
    LET hours == FloorDivInt(seconds, 3600) % 24
        minutes == FloorDivInt(FloatMod(seconds, 3600), 60)
        secs == FloorDivInt(FloatMod(seconds, 60), 1)
    IN  Fmt02d(hours) \o <<":">> \o Fmt02d(minutes) \o <<":">> \o Fmt02d(secs)

Transcriber_format_timestamp(seconds) ==
    LET hours == FloorDivInt(seconds, 3600)
        minutes == FloorDivInt(FloatMod(seconds, 3600), 60)
        secs == FloorDivInt(FloatMod(seconds, 60), 1)
    IN  Fmt02d(hours) \o <<":">> \o Fmt02d(minutes) \o <<":">> \o Fmt02d(secs)

Analyzer_format_timestamp(seconds) ==
    LET hours == FloorDivInt(seconds, 3600)
        minutes == FloorDivInt(FloatMod(seconds, 3600), 60)
        secs == FloorDivInt(FloatMod(seconds, 60), 1)
    IN  Fmt02d(hours) \o <<":">> \o Fmt02d(minutes) \o <<":">> \o Fmt02d(secs)

----------------------------------------------------------------------------
(* VideoProcessor.extract_keyframes *)

\* A video file as cv2.VideoCapture sees it: whether it opens, its frame rate,
\* and how many frames cap.read() decodes before it returns ret = False.
\* cap.get(CAP_PROP_FPS) is 0.0 on a capture that did not open.
CapGetFps(video) == IF video.opened THEN video.fps ELSE Rat(0, 1)

\* int(fps * interval_seconds): truncation of a non-negative float
FrameInterval(fps, interval_seconds) == (fps.n * interval_seconds) \div fps.d

Raised(prefix, cause) == [ok |-> FALSE, error |-> <<prefix, cause>>]

RECURSIVE ReadLoop(_, _, _, _, _)
\* the while loop: one cap.read() per turn
ReadLoop(video, fps, frame_interval, frame_count, keyframes) ==
    IF ~video.opened THEN [ok |-> TRUE, value |-> keyframes, released |-> TRUE]
    ELSE IF frame_count >= video.nframes
    THEN [ok |-> TRUE, value |-> keyframes, released |-> TRUE]
    ELSE IF frame_interval = 0
    THEN Raised("Error processing video: ", "ZeroDivisionError") @@ [released |-> FALSE]
    ELSE ReadLoop(video, fps, frame_interval, frame_count + 1,
            IF frame_count % frame_interval = 0
            THEN Append(keyframes,
                    [timestamp |-> Rat(frame_count * fps.d, fps.n), frame |-> frame_count])
            ELSE keyframes)

extract_keyframes(video, interval_seconds) ==
    LET fps == CapGetFps(video)
        frame_interval == FrameInterval(fps, interval_seconds)
    IN  ReadLoop(video, fps, frame_interval, 0, <<>>)

----------------------------------------------------------------------------
(* AudioTranscriber.format_transcript *)

\* a formatter that stamps each line with the end of the segment
FormatTranscriptByEnd(segments, format_type) ==
    IF format_type = "long"
    THEN [ok |-> TRUE, value |-> JoinWith(<<" ">>, [k \in 1..Len(segments) |-> segments[k].text])]
    ELSE [ok |-> TRUE,
          value |-> JoinWith(<<"\n">>,
                [k \in 1..Len(segments) |->
                    <<"[">> \o Transcriber_format_timestamp(segments[k].end)
                        \o <<"]", " ">> \o segments[k].text])]

\* a formatter that rejects an empty transcript
FormatTranscriptNonEmpty(segments, format_type) ==
    IF segments = <<>> THEN [ok |-> FALSE, error |-> <<"ValueError">>]
    ELSE FormatTranscriptByEnd(segments, format_type)

format_transcript(segments, format_type) ==
    IF format_type = "long"
    THEN [ok |-> TRUE, value |-> JoinWith(<<" ">>, [k \in 1..Len(segments) |-> segments[k].text])]
    ELSE [ok |-> TRUE,
          value |-> JoinWith(<<"\n">>,
                [k \in 1..Len(segments) |->
                    <<"[">> \o Transcriber_format_timestamp(segments[k].start)
                        \o <<"]", " ">> \o segments[k].text])]

----------------------------------------------------------------------------
(* VisionAnalyzer.format_visual_content *)

\* the format spec ":.2f" for a confidence c = n/d in [0, 1]: two decimals,
\* rounded to the nearest hundredth, ties to even
Fmt2f(c) ==
    LET h == PyRound(Rat(c.n * 100, c.d))
    IN  Dec(h \div 100) \o <<".">> \o Fmt02d(h % 100)

\* a line built from the last description of the entry
VisualLineLast(analysis) ==
    LET timestamp == Analyzer_format_timestamp(analysis.timestamp)
        top_description == analysis.analysis.descriptions[Len(analysis.analysis.descriptions)]
    IN  <<"[">> \o timestamp \o <<"]", " ">> \o top_description.text \o <<" ">>
        \o <<"(confidence: ">> \o Fmt2f(top_description.confidence) \o <<")">>

VisualLine(analysis) ==
    LET timestamp == Analyzer_format_timestamp(analysis.timestamp)
        top_description == analysis.analysis.descriptions[1]
    IN  <<"[">> \o timestamp \o <<"]", " ">> \o top_description.text \o <<" ">>
        \o <<"(confidence: ">> \o Fmt2f(top_description.confidence) \o <<")">>

\* a formatter that leaves out the entries without a description
FormatVisualSkipEmpty(analyses) ==
    [ok |-> TRUE,
     value |-> JoinWith(<<"\n">>,
        LET kept == SelectSeq(analyses, LAMBDA a : a.analysis.descriptions # <<>>)
        IN  [k \in 1..Len(kept) |-> VisualLine(kept[k])])]

\* descriptions[0] of an empty list raises IndexError, which nothing here catches
format_visual_content(analyses) ==
    IF \E k \in 1..Len(analyses) : analyses[k].analysis.descriptions = <<>>
    THEN [ok |-> FALSE, error |-> <<"IndexError">>]
    ELSE [ok |-> TRUE,
          value |-> JoinWith(<<"\n">>, [k \in 1..Len(analyses) |-> VisualLine(analyses[k])])]

----------------------------------------------------------------------------
(* SummaryGenerator._construct_prompt and the stripping of service replies *)

NL == "\n"

format_instructions(format_type) ==
    IF format_type = "timestamped"
    THEN "Create a timestamped summary with key points and their timestamps."
    ELSE "Create a comprehensive summary of the video content."

\* a builder whose template has the two placeholders the wrong way round
ConstructPromptSwapped(transcript, visual_content, format_type) ==
    <<"Please analyze the following video content and create a summary.", NL, NL,
      "Transcript:", NL>> \o visual_content
    \o <<NL, NL, "Visual Content Analysis:", NL>> \o transcript
    \o <<NL, NL, "Instructions:", NL, format_instructions(format_type), NL,
         "Focus on the main points and key insights.", NL,
         "If there are any demonstrations or visual elements, make sure to mention them.", NL,
         "Keep the summary clear and concise while maintaining all important information.",
         NL, NL, "Summary:">>

\* a builder that also renames the transcript heading for the timestamped format
ConstructPromptRetitled(transcript, visual_content, format_type) ==
    <<"Please analyze the following video content and create a summary.", NL, NL,
      IF format_type = "timestamped" THEN "Timestamped transcript:" ELSE "Transcript:", NL>>
    \o transcript
    \o <<NL, NL, "Visual Content Analysis:", NL>> \o visual_content
    \o <<NL, NL, "Instructions:", NL, format_instructions(format_type), NL,
         "Focus on the main points and key insights.", NL,
         "If there are any demonstrations or visual elements, make sure to mention them.", NL,
         "Keep the summary clear and concise while maintaining all important information.",
         NL, NL, "Summary:">>

\* a builder that keeps the comprehensive instruction for 'long' alone
ConstructPromptLongOnly(transcript, visual_content, format_type) ==
    <<"Please analyze the following video content and create a summary.", NL, NL,
      "Transcript:", NL>> \o transcript
    \o <<NL, NL, "Visual Content Analysis:", NL>> \o visual_content
    \o <<NL, NL, "Instructions:", NL,
         IF format_type = "long"
         THEN "Create a comprehensive summary of the video content."
         ELSE "Create a timestamped summary with key points and their timestamps.", NL,
         "Focus on the main points and key insights.", NL,
         "If there are any demonstrations or visual elements, make sure to mention them.", NL,
         "Keep the summary clear and concise while maintaining all important information.",
         NL, NL, "Summary:">>

construct_prompt(transcript, visual_content, format_type) ==
    <<"Please analyze the following video content and create a summary.", NL, NL,
      "Transcript:", NL>> \o transcript
    \o <<NL, NL, "Visual Content Analysis:", NL>> \o visual_content
    \o <<NL, NL, "Instructions:", NL, format_instructions(format_type), NL,
         "Focus on the main points and key insights.", NL,
         "If there are any demonstrations or visual elements, make sure to mention them.", NL,
         "Keep the summary clear and concise while maintaining all important information.",
         NL, NL, "Summary:">>

IsSpace(c) == c \in {" ", NL}

RECURSIVE LStrip(_)
LStrip(text) == IF text # <<>> /\ IsSpace(Head(text)) THEN LStrip(Tail(text)) ELSE text

RECURSIVE RStrip(_)
RStrip(text) ==
    IF text # <<>> /\ IsSpace(text[Len(text)]) THEN RStrip(SubSeq(text, 1, Len(text) - 1))
    ELSE text

\* str.strip()
Strip(text) == RStrip(LStrip(text))

\* a transcribe_audio that copies the texts of the response as they are
UnstrippedSegments(response) ==
    [k \in 1..Len(response) |->
        [start |-> response[k].start, end |-> response[k].end, text |-> response[k].text]]

\* the loop of transcribe_audio over response.segments
StrippedSegments(response) ==
    [k \in 1..Len(response) |->
        [start |-> response[k].start, end |-> response[k].end, text |-> Strip(response[k].text)]]

\* the labels CLIP scores every frame against
scene_descriptions ==
    <<"a person speaking", "a presentation", "a demonstration",
      "a tutorial", "a lecture", "a product showcase",
      "a landscape", "a close-up shot", "a group of people",
      "a computer screen", "a whiteboard", "a classroom">>

\* how many descriptions analyze_frame keeps
TopCount == 3

\* the probabilities are held in thousandths
ProbDen == 1000

\* torch.topk(probs, k): the indices of k largest entries, largest first.
\* Which of several equal entries comes first, or is kept, is up to the
\* library, so every admissible answer is a result.
TopKResults(probs, k) ==
    {idx \in [1..k -> 1..Len(probs)] :
        /\ \A a, b \in 1..k : a < b => idx[a] # idx[b] /\ probs[idx[a]] >= probs[idx[b]]
        /\ \A i \in 1..Len(probs) :
            (\A a \in 1..k : idx[a] # i) => probs[i] <= probs[idx[k]]}

\* analyze_frame: what it may return for a frame whose softmax output is probs
analyze_frame(probs) ==
    {[descriptions |->
        [j \in 1..TopCount |->
            [text |-> <<scene_descriptions[idx[j]]>>,
             confidence |-> Rat(probs[idx[j]], ProbDen)]]] :
      idx \in TopKResults(probs, TopCount)}

RECURSIVE analyze_keyframes(_)
\* analyze_keyframes over keyframes that carry the softmax output of their frame
analyze_keyframes(keyframes) ==
    IF keyframes = <<>> THEN {<<>>}
    ELSE {<<[timestamp |-> Head(keyframes).timestamp, analysis |-> a]>> \o rest :
            a \in analyze_frame(Head(keyframes).probs),
            rest \in analyze_keyframes(Tail(keyframes))}

\* analyze_keyframes: one entry per keyframe, in order, each holding what
\* analyze_frame returned for that frame
AnalysesOf(keyframes, descriptions) ==
    [k \in 1..Len(keyframes) |->
        [timestamp |-> keyframes[k].timestamp, analysis |-> [descriptions |-> descriptions]]]

----------------------------------------------------------------------------
(* The pipeline is idle in the specifications that check one component. *)

PipeIdle ==
    /\ env_key = ""
    /\ openai_api_key = None
    /\ key_writer = 0
    /\ cross = {}
    /\ files = {}
    /\ runs = <<>>

----------------------------------------------------------------------------
(* The pipeline runs: main() of src/main.py and the processing section of  *)
(* src/app.py.  Each run is one sequential control flow; several runs      *)
(* interleave at the granularity of their blocking calls.                  *)

Runs == {1, 2}

StageOrder == <<"Acquire", "Sample", "Transcribe", "Analyze", "BuildPrompt", "Generate">>

IntervalSeconds == 5

\* what a download can leave on disk: a file that does not open, a stream
\* without a frame rate, an empty stream, and a readable one
PipeVideos ==
    { [opened |-> FALSE, fps |-> Rat(0, 1), nframes |-> 0],
      [opened |-> TRUE, fps |-> Rat(0, 1), nframes |-> 1],
      [opened |-> TRUE, fps |-> Rat(1, 1), nframes |-> 0],
      [opened |-> TRUE, fps |-> Rat(1, 1), nframes |-> 6] }

PipeResponses ==
    { <<>>, <<[start |-> Rat(0, 1), end |-> Rat(5, 1), text |-> <<" ", "hello world">>]>> }

PipeDescriptions ==
    { <<[text |-> <<"a presentation">>, confidence |-> Rat(900, 1000)],
        [text |-> <<"a lecture">>, confidence |-> Rat(60, 1000)],
        [text |-> <<"a whiteboard">>, confidence |-> Rat(40, 1000)]>> }

PipeContents == { <<>>, <<"The video shows a presentation.", NL>> }

\* the mocked texts of app.py, abridged to their first line
mock_transcript == <<NL, "Welcome to this comprehensive guide on machine learning.", NL>>

mock_visual_content == <<NL, "[00:00:00] a person speaking at a whiteboard (confidence: 0.85)", NL>>

AppSteps ==
    << [text |-> "Downloading video and audio...", progress |-> 20],
       [text |-> "Extracting keyframes...", progress |-> 40],
       [text |-> "Transcribing audio...", progress |-> 60],
       [text |-> "Analyzing visual content...", progress |-> 80] >>

IdleRun ==
    [kind |-> "", pc |-> "idle", format |-> "", video |-> [opened |-> FALSE],
     keyframes |-> <<>>, transcript |-> <<>>, visual_content |-> <<>>, prompt |-> <<>>,
     summary |-> <<>>, trace |-> <<>>, returned |-> <<>>, failed |-> "", error |-> <<>>,
     delivered |-> FALSE, progress |-> <<>>]

InitPipe ==
    /\ env_key \in {"", "sk-key"}
    /\ openai_api_key = None
    /\ key_writer = 0
    /\ cross = {}
    /\ files = {}
    /\ runs = [r \in Runs |-> IdleRun]

\* tempfile.TemporaryDirectory() names a fresh directory for every run
TempDir(r) == r

Entered(run, stage) == [run EXCEPT !.trace = Append(@, stage)]

Returned(run, stage) == [run EXCEPT !.returned = Append(@, stage)]

\* the except branch of main(): print(f"Error: {str(e)}"); return 1
Fail(run, stage, e) ==
    [run EXCEPT !.pc = "Failed", !.failed = stage, !.error = <<"Error: ">> \o e]

\* accesses of run r to shared state that another run wrote last
Foreign(r, writer, state, access) ==
    IF writer \notin {0, r}
    THEN {[run |-> r, writer |-> writer, state |-> state, access |-> access]}
    ELSE {}

FileWriter(dir, name) ==
    IF \E f \in files : f.dir = dir /\ f.name = name
    THEN (CHOOSE f \in files : f.dir = dir /\ f.name = name).writer
    ELSE 0

WriteFile(fs, r, dir, name) ==
    {f \in fs : ~(f.dir = dir /\ f.name = name)} \cup {[dir |-> dir, name |-> name, writer |-> r]}

CliStart(r) ==
    /\ runs[r].pc = "idle"
    /\ \E f \in {"long", "timestamped"} :
        runs' = [runs EXCEPT ![r] = [@ EXCEPT !.kind = "cli", !.format = f, !.pc = "init"]]
    /\ UNCHANGED <<env_key, openai_api_key, key_writer, cross, files, pin, pout>>

\* a main() that builds its components without looking for the credential
CliInitUnchecked(r) ==
    /\ runs[r].pc = "init"
    /\ openai_api_key' = env_key
    /\ key_writer' = r
    /\ cross' = cross \cup Foreign(r, key_writer, "openai.api_key", "overwrite")
    /\ runs' = [runs EXCEPT ![r].pc = "Acquire"]
    /\ UNCHANGED <<env_key, files, pin, pout>>

\* the constructors of main(): AudioTranscriber() and SummaryGenerator() read
\* OPENAI_API_KEY from the environment and assign the global openai.api_key
CliInit(r) ==
    /\ runs[r].pc = "init"
    /\ IF env_key = ""
       THEN /\ runs' = [runs EXCEPT ![r] =
                    Fail(@, "Init", <<"OPENAI_API_KEY not found in environment variables">>)]
            /\ UNCHANGED <<openai_api_key, key_writer, cross>>
       ELSE /\ openai_api_key' = env_key
            /\ key_writer' = r
            /\ cross' = cross \cup Foreign(r, key_writer, "openai.api_key", "overwrite")
            /\ runs' = [runs EXCEPT ![r].pc = "Acquire"]
    /\ UNCHANGED <<env_key, files, pin, pout>>

\* a main() that goes on to sampling when the download raised
CliDownloadLenient(r) ==
    /\ runs[r].pc = "Acquire"
    /\ \/ \E v \in PipeVideos :
            runs' = [runs EXCEPT ![r] =
                [Returned(Entered(@, "Acquire"), "Acquire") EXCEPT !.video = v, !.pc = "Sample"]]
       \/ runs' = [runs EXCEPT ![r] =
                [Entered(@, "Acquire") EXCEPT
                    !.failed = "Acquire", !.pc = "Sample",
                    !.error = <<"Error: ", "Error downloading video: ", "RegexMatchError">>]]
    /\ files' = WriteFile(files, r, TempDir(r), "video")
    /\ UNCHANGED <<env_key, openai_api_key, key_writer, cross, pin, pout>>

\* downloader.download_video(args.url)
CliDownload(r) ==
    /\ runs[r].pc = "Acquire"
    /\ \/ \E v \in PipeVideos :
            /\ runs' = [runs EXCEPT ![r] =
                    [Returned(Entered(@, "Acquire"), "Acquire") EXCEPT
                        !.video = v, !.pc = "Sample"]]
            /\ files' = WriteFile(WriteFile(files, r, TempDir(r), "video"),
                                  r, TempDir(r), "audio.mp3")
            /\ cross' = cross
                    \cup Foreign(r, FileWriter(TempDir(r), "video"), "video", "overwrite")
                    \cup Foreign(r, FileWriter(TempDir(r), "audio.mp3"), "audio.mp3", "overwrite")
       \/ /\ runs' = [runs EXCEPT ![r] =
                    Fail(Entered(@, "Acquire"), "Acquire",
                         <<"Error downloading video: ", "RegexMatchError">>)]
          /\ UNCHANGED <<files, cross>>
    /\ UNCHANGED <<env_key, openai_api_key, key_writer, pin, pout>>

\* a main() that swallows a sampling error and goes on without keyframes
CliExtractLenient(r) ==
    /\ runs[r].pc = "Sample"
    /\ LET res == extract_keyframes(runs[r].video, IntervalSeconds)
       IN  runs' = [runs EXCEPT ![r] =
                IF res.ok
                THEN [Returned(Entered(@, "Sample"), "Sample") EXCEPT
                        !.keyframes = res.value, !.pc = "Transcribe"]
                ELSE [Entered(@, "Sample") EXCEPT !.failed = "Sample", !.pc = "Transcribe"]]
    /\ cross' = cross \cup Foreign(r, FileWriter(TempDir(r), "video"), "video", "read")
    /\ UNCHANGED <<env_key, openai_api_key, key_writer, files, pin, pout>>

\* processor.extract_keyframes(video_path)
CliExtract(r) ==
    /\ runs[r].pc = "Sample"
    /\ LET res == extract_keyframes(runs[r].video, IntervalSeconds)
       IN  runs' = [runs EXCEPT ![r] =
                IF res.ok
                THEN [Returned(Entered(@, "Sample"), "Sample") EXCEPT
                        !.keyframes = res.value, !.pc = "Transcribe"]
                ELSE Fail(Entered(@, "Sample"), "Sample", res.error)]
    /\ cross' = cross \cup Foreign(r, FileWriter(TempDir(r), "video"), "video", "read")
    /\ UNCHANGED <<env_key, openai_api_key, key_writer, files, pin, pout>>

\* transcriber.transcribe_audio(audio_path), then transcriber.format_transcript
CliTranscribe(r) ==
    /\ runs[r].pc = "Transcribe"
    /\ \/ \E response \in PipeResponses :
            runs' = [runs EXCEPT ![r] =
                [Returned(Entered(@, "Transcribe"), "Transcribe") EXCEPT
                    !.transcript =
                        format_transcript(StrippedSegments(response), runs[r].format).value,
                    !.pc = "Analyze"]]
       \/ runs' = [runs EXCEPT ![r] =
                Fail(Entered(@, "Transcribe"), "Transcribe",
                     <<"Error transcribing audio: ", "APIError">>)]
    /\ cross' = cross
            \cup Foreign(r, FileWriter(TempDir(r), "audio.mp3"), "audio.mp3", "read")
            \cup Foreign(r, key_writer, "openai.api_key", "read")
    /\ UNCHANGED <<env_key, openai_api_key, key_writer, files, pin, pout>>

\* analyzer.analyze_keyframes(keyframes), then analyzer.format_visual_content;
\* neither wraps what it raises
CliAnalyze(r) ==
    /\ runs[r].pc = "Analyze"
    /\ \/ \E ds \in PipeDescriptions :
            LET res == format_visual_content(AnalysesOf(runs[r].keyframes, ds))
            IN  runs' = [runs EXCEPT ![r] =
                    IF res.ok
                    THEN [Returned(Entered(@, "Analyze"), "Analyze") EXCEPT
                            !.visual_content = res.value, !.pc = "Generate"]
                    ELSE Fail(Entered(@, "Analyze"), "Analyze", res.error)]
       \/ /\ runs[r].keyframes # <<>>
          /\ runs' = [runs EXCEPT ![r] =
                    Fail(Entered(@, "Analyze"), "Analyze", <<"RuntimeError">>)]
    /\ UNCHANGED <<env_key, openai_api_key, key_writer, cross, files, pin, pout>>

\* generator.generate_summary(...): the prompt is built, then the chat
\* completion is requested and its content stripped
CliGenerate(r) ==
    /\ runs[r].pc = "Generate"
    /\ LET prompt == construct_prompt(runs[r].transcript, runs[r].visual_content,
                                      runs[r].format)
           built == [Entered(Returned(Entered(runs[r], "BuildPrompt"), "BuildPrompt"),
                             "Generate") EXCEPT !.prompt = prompt]
       IN  \/ \E content \in PipeContents :
                runs' = [runs EXCEPT ![r] =
                    [Returned(built, "Generate") EXCEPT
                        !.summary = Strip(content), !.pc = "Output"]]
           \/ runs' = [runs EXCEPT ![r] =
                    Fail(built, "Generate", <<"Error generating summary: ", "RateLimitError">>)]
    /\ cross' = cross \cup Foreign(r, key_writer, "openai.api_key", "read")
    /\ UNCHANGED <<env_key, openai_api_key, key_writer, files, pin, pout>>

\* the summary is written to the output file or printed
CliOutput(r) ==
    /\ runs[r].kind = "cli"
    /\ runs[r].pc = "Output"
    /\ runs' = [runs EXCEPT ![r] = [@ EXCEPT !.delivered = TRUE, !.pc = "Done"]]
    /\ UNCHANGED <<env_key, openai_api_key, key_writer, cross, files, pin, pout>>

\* the button is enabled only with a URL and a key: process_button and url and api_key
AppStart(r) ==
    /\ runs[r].pc = "idle"
    /\ env_key # ""
    /\ \E f \in {"long", "timestamped"} :
        runs' = [runs EXCEPT ![r] =
            [@ EXCEPT !.kind = "app", !.format = f, !.pc = "steps", !.progress = <<0>>]]
    /\ UNCHANGED <<env_key, openai_api_key, key_writer, cross, files, pin, pout>>

\* a loop that walks the progress values of the steps from the last to the first
AppStepReversed(r) ==
    /\ runs[r].pc = "steps"
    /\ LET i == Len(runs[r].trace) + 1
       IN  runs' = [runs EXCEPT ![r] =
                [Returned(Entered(@, StageOrder[i]), StageOrder[i]) EXCEPT
                    !.progress = Append(@, AppSteps[Len(AppSteps) + 1 - i].progress),
                    !.pc = IF i = Len(AppSteps) THEN "Generate" ELSE "steps"]]
    /\ UNCHANGED <<env_key, openai_api_key, key_writer, cross, files, pin, pout>>

\* one turn of the loop over the mocked steps
AppStep(r) ==
    /\ runs[r].pc = "steps"
    /\ LET i == Len(runs[r].trace) + 1
       IN  runs' = [runs EXCEPT ![r] =
                [Returned(Entered(@, StageOrder[i]), StageOrder[i]) EXCEPT
                    !.progress = Append(@, AppSteps[i].progress),
                    !.pc = IF i = Len(AppSteps) THEN "Generate" ELSE "steps"]]
    /\ UNCHANGED <<env_key, openai_api_key, key_writer, cross, files, pin, pout>>

\* the inner try block: the prompt is built from the mocked texts; the call
\* openai.ChatCompletion.create names a module app.py never imports, so it
\* raises NameError, and the except branch makes the error text the summary
AppGenerate(r) ==
    /\ runs[r].kind = "app"
    /\ runs[r].pc = "Generate"
    /\ runs' = [runs EXCEPT ![r] =
            [Entered(Returned(Entered(@, "BuildPrompt"), "BuildPrompt"), "Generate") EXCEPT
                !.prompt = construct_prompt(mock_transcript, mock_visual_content,
                                            runs[r].format),
                !.failed = "Generate",
                !.error = <<"API Error: ", "NameError">>,
                !.summary = <<"Error generating summary: ", "NameError">>,
                !.pc = "Output"]]
    /\ UNCHANGED <<env_key, openai_api_key, key_writer, cross, files, pin, pout>>

\* progress_bar.progress(100) and the results container
AppFinish(r) ==
    /\ runs[r].kind = "app"
    /\ runs[r].pc = "Output"
    /\ runs' = [runs EXCEPT ![r] =
            [@ EXCEPT !.progress = Append(@, 100), !.delivered = TRUE, !.pc = "Done"]]
    /\ UNCHANGED <<env_key, openai_api_key, key_writer, cross, files, pin, pout>>

Init ==
    /\ InitPipe
    /\ pin = [fn |-> "pipeline"]
    /\ pout = Pending

Next ==
    \E r \in Runs :
        \/ CliStart(r)
        \/ CliInit(r)
        \/ CliDownload(r)
        \/ CliExtract(r)
        \/ CliTranscribe(r)
        \/ CliAnalyze(r)
        \/ CliGenerate(r)
        \/ CliOutput(r)
        \/ AppStart(r)
        \/ AppStep(r)
        \/ AppGenerate(r)
        \/ AppFinish(r)

Spec == Init /\ [][Next]_vars

StageSet == {StageOrder[k] : k \in 1..Len(StageOrder)}

IsPrefix(a, b) == Len(a) <= Len(b) /\ SubSeq(b, 1, Len(a)) = a

Last(q) == q[Len(q)]

\* C1: in every run the stages are entered in the fixed order Acquire, Sample,
\* Transcribe, Analyze, BuildPrompt, Generate, each at most once, and a stage is
\* entered only when every stage before it has returned; Done follows Generate.
C1_StagesInOrderOnce ==
    \A r \in Runs :
        /\ IsPrefix(runs[r].trace, StageOrder)
        /\ IsPrefix(runs[r].returned, runs[r].trace)
        /\ Len(runs[r].trace) <= Len(runs[r].returned) + 1
        /\ runs[r].pc = "Done" => runs[r].trace = StageOrder

\* a command-line run that went through all six stages, beside a Streamlit run
C1_Witness ==
    \E r, q \in Runs :
        /\ runs[r].kind = "cli" /\ runs[r].pc = "Done" /\ runs[r].returned = StageOrder
        /\ runs[r].keyframes # <<>> /\ runs[r].transcript # <<>>
        /\ runs[q].kind = "app" /\ runs[q].pc = "Done" /\ runs[q].trace = StageOrder

\* C2: when a stage of a command-line run fails, the run is Failed at once and
\* the failed stage is the last one whose collaborator was invoked; after a
\* failed download no other collaborator has been invoked.  In no run is a
\* collaborator invoked after a stage failed.
C2_FailureEndsRun ==
    \A r \in Runs :
        /\ (runs[r].kind = "cli" /\ runs[r].failed # "") =>
                /\ runs[r].pc = "Failed"
                /\ ~runs[r].delivered
        /\ runs[r].failed \in StageSet => Last(runs[r].trace) = runs[r].failed
        /\ runs[r].failed = "Init" => runs[r].trace = <<>>
        /\ runs[r].failed = "Acquire" => runs[r].trace = <<"Acquire">>

\* one run failed in the download, the other one in the analysis
C2_Witness ==
    \E r, q \in Runs :
        /\ runs[r].kind = "cli" /\ runs[r].failed = "Acquire" /\ runs[r].pc = "Failed"
        /\ runs[q].kind = "cli" /\ runs[q].failed = "Analyze" /\ runs[q].pc = "Failed"
        /\ runs[q].trace = <<"Acquire", "Sample", "Transcribe", "Analyze">>

\* C3: no summary is delivered in a run in which a stage failed: a run reaches
\* Done, reports progress 100 or outputs summary text only if all of Acquire,
\* Sample, Transcribe, Analyze, BuildPrompt and Generate succeeded.
C3_NoSummaryAfterFailure ==
    \A r \in Runs :
        (\/ runs[r].delivered
         \/ runs[r].pc = "Done"
         \/ \E k \in 1..Len(runs[r].progress) : runs[r].progress[k] = 100)
        => runs[r].failed = "" /\ runs[r].returned = StageOrder

\* the context each stage's error is wrapped with where the source wraps it:
\* the except branches of download_video, extract_keyframes, transcribe_audio and
\* generate_summary, and st.error in app.py; analyze_keyframes and
\* format_visual_content have none
StageContext ==
    [ Acquire |-> {"Error downloading video: "},
      Sample |-> {"Error processing video: "},
      Transcribe |-> {"Error transcribing audio: "},
      Analyze |-> {},
      BuildPrompt |-> {},
      Generate |-> {"Error generating summary: ", "API Error: "} ]

\* C4: every error raised in a stage reaches the caller as one error that
\* carries the context of the stage that failed; none propagates unwrapped.
C4_ErrorsCarryStage ==
    \A r \in Runs :
        runs[r].failed \in StageSet =>
            \E k \in 1..(Len(runs[r].error) - 1) :
                runs[r].error[k] \in StageContext[runs[r].failed]

\* C5: without OPENAI_API_KEY no stage starts: download_video is never invoked,
\* and a run that was started has failed in the construction of its components.
C5_NoKeyNoStage ==
    env_key = "" =>
        \A r \in Runs :
            /\ runs[r].trace = <<>>
            /\ runs[r].pc \in {"idle", "init", "Failed"}
            /\ runs[r].pc = "Failed" => runs[r].failed = "Init"

C5_Witness ==
    /\ env_key = ""
    /\ \E r \in Runs :
        /\ runs[r].pc = "Failed" /\ runs[r].failed = "Init"
        /\ runs[r].error = <<"Error: ", "OPENAI_API_KEY not found in environment variables">>

\* C6: concurrent runs are independent: no mutable state written by one run
\* (a process global, a file of the download directory) is read or overwritten
\* by another run.
C6_RunsShareNothing == cross = {}

RECURSIVE SplitOn(_, _, _)
\* text.split(sep) of Python, sep one piece: SplitOn(text, sep, <<>>); the text
\* without any separator, the empty text included, is one field
SplitOn(text, sep, field) ==
    IF text = <<>> THEN <<field>>
    ELSE IF Head(text) = sep THEN <<field>> \o SplitOn(Tail(text), sep, <<>>)
    ELSE SplitOn(Tail(text), sep, Append(field, Head(text)))

PromptLines(prompt) == SplitOn(prompt, NL, <<>>)

\* the n pieces that follow the first line "heading" of a prompt
AfterHeading(prompt, heading, n) ==
    LET at == {k \in 1..(Len(prompt) - 1) : prompt[k] = heading /\ prompt[k + 1] = NL}
        k == CHOOSE i \in at : \A j \in at : i <= j
    IN  IF at = {} THEN <<"heading not found">> ELSE SubSeq(prompt, k + 2, k + 1 + n)

PromptBuilt(r) ==
    /\ runs[r].kind = "cli"
    /\ \E k \in 1..Len(runs[r].returned) : runs[r].returned[k] = "BuildPrompt"

HelloWorldRun(r) ==
    /\ PromptBuilt(r)
    /\ runs[r].format = "long"
    /\ runs[r].transcript = <<"hello world">>
    /\ Len(runs[r].keyframes) >= 1
    /\ runs[r].keyframes[1].timestamp = Rat(0, 1)

\* C12: the prompt a run builds holds the formatted transcript, unmodified and
\* untruncated, right after "Transcript:\n", and the formatted visual content
\* right after "Visual Content Analysis:\n"; for the segment (0, 5, "hello world"),
\* a first analysis at t = 0 topped by "a presentation" and format 'long' it holds
\* "Transcript:\nhello world" and a visual line beginning "[00:00:00] a presentation".
C12_PromptHoldsInputs ==
    \A r \in Runs :
        /\ PromptBuilt(r) =>
            /\ AfterHeading(runs[r].prompt, "Transcript:", Len(runs[r].transcript))
                    = runs[r].transcript
            /\ AfterHeading(runs[r].prompt, "Visual Content Analysis:",
                            Len(runs[r].visual_content)) = runs[r].visual_content
        /\ HelloWorldRun(r) =>
            /\ Str(<<"Transcript:", NL>>
                    \o AfterHeading(runs[r].prompt, "Transcript:", 1))
                    = "Transcript:\nhello world"
            /\ Str(AfterHeading(runs[r].prompt, "Visual Content Analysis:", 12))
                    = "[00:00:00] a presentation"
            /\ Str(PromptLines(runs[r].visual_content)[1])
                    = "[00:00:00] a presentation (confidence: 0.90)"

C12_Witness ==
    \E r \in Runs :
        /\ HelloWorldRun(r)
        /\ runs[r].pc = "Done"
        /\ Len(runs[r].keyframes) = 2

InTrace(r, stage) == \E k \in 1..Len(runs[r].trace) : runs[r].trace[k] = stage

HasReturned(r, stage) == \E k \in 1..Len(runs[r].returned) : runs[r].returned[k] = stage

\* C14: when the video stream cannot be opened or has no frame rate, the
\* sampling stage fails and the run goes to Failed; the run never continues
\* with an empty keyframe list made from an unreadable stream.
C14_UnreadableStreamFails ==
    \A r \in Runs :
        (/\ runs[r].kind = "cli"
         /\ InTrace(r, "Sample")
         /\ (~runs[r].video.opened \/ runs[r].video.fps.n = 0))
        => runs[r].failed = "Sample" /\ runs[r].pc = "Failed"

\* C15: an empty response of the generative service is a generation failure:
\* generate_summary never returns an empty summary as a success.
C15_EmptyResponseFails ==
    \A r \in Runs :
        (runs[r].kind = "cli" /\ HasReturned(r, "Generate")) => runs[r].summary # <<>>

ReportedProgress == <<20, 40, 60, 80, 100>>

\* C16: the progress values a run reports are strictly increasing, in stage
\* order 20, 40, 60, 80, 100 (after the 0 the progress bar is created with):
\* one value for each mocked step completed, and 100 when the run is done.
C16_ProgressIncreases ==
    \A r \in Runs :
        /\ \A j, k \in 1..Len(runs[r].progress) :
                j < k => runs[r].progress[j] < runs[r].progress[k]
        /\ runs[r].kind = "app" =>
            /\ runs[r].progress[1] = 0
            /\ IsPrefix(Tail(runs[r].progress), ReportedProgress)
            /\ runs[r].pc \in {"steps", "Generate"} =>
                    Len(runs[r].progress) = Len(runs[r].trace) + 1
            /\ runs[r].pc = "Done" => Tail(runs[r].progress) = ReportedProgress
        /\ runs[r].kind # "app" => runs[r].progress = <<>>

\* two Streamlit runs, one finished and one between its second and third step
C16_Witness ==
    \E r, q \in Runs :
        /\ runs[r].kind = "app" /\ runs[r].pc = "Done"
        /\ runs[r].progress = <<0, 20, 40, 60, 80, 100>>
        /\ runs[q].kind = "app" /\ runs[q].pc = "steps"
        /\ runs[q].progress = <<0, 20, 40>>

----------------------------------------------------------------------------
(* Specification SpecTs: the timestamp formatters on their own *)

MaxHours == 101

FracDen == 10

\* hours that cover a single digit, two digits, the day boundary and three digits
TsHourInputs == {0, 1, 9, 10, 23, 24, 25, 99, 100, MaxHours}

TsMinSecInputs == {0, 1, 9, 10, 59}

TsFracInputs == {0, 1, FracDen - 1}

TsInputs ==
    { Rat(((h * 3600 + m * 60 + s) * FracDen) + f, FracDen) :
        h \in TsHourInputs, m \in TsMinSecInputs, s \in TsMinSecInputs, f \in TsFracInputs }

InitTs ==
    /\ PipeIdle
    /\ \E s \in TsInputs : pin = [fn |-> "format_timestamp", seconds |-> s]
    /\ pout = Pending

CallFormatTimestamp ==
    /\ pin.fn = "format_timestamp"
    /\ pout = Pending
    /\ pout' = [done |-> TRUE,
                audio |-> Transcriber_format_timestamp(pin.seconds),
                vision |-> Analyzer_format_timestamp(pin.seconds)]
    /\ UNCHANGED <<pipeVars, pin>>

NextTs == CallFormatTimestamp

SpecTs == InitTs /\ [][NextTs]_vars

\* The text H:MM:SS the specification describes for s seconds, from integer
\* arithmetic on whole seconds: H with at least two digits and no wrap at 24.
WholeSeconds(s) == s.n \div s.d

ExpectedTimestamp(s) ==
    LET w == WholeSeconds(s)
        h == w \div 3600
        m == (w % 3600) \div 60
        c == w % 60
    IN  (IF h < 10 THEN <<"0">> ELSE <<>>) \o Dec(h) \o <<":">>
        \o <<Digits[(m \div 10) + 1], Digits[(m % 10) + 1]>> \o <<":">>
        \o <<Digits[(c \div 10) + 1], Digits[(c % 10) + 1]>>

\* C7: for every s >= 0 both formatter copies return H:MM:SS with H = floor(s/3600)
\* in at least two digits and never wrapped at 24, MM and SS zero padded to two
\* digits, the fraction dropped; 3661.9 gives "01:01:01".
C7_TimestampFormat ==
    /\ pout.done /\ pin.fn = "format_timestamp" =>
        /\ pout.audio = ExpectedTimestamp(pin.seconds)
        /\ pout.vision = ExpectedTimestamp(pin.seconds)
        /\ Len(pout.audio) >= 8
        /\ pout.audio[Len(pout.audio) - 2] = ":" /\ pout.audio[Len(pout.audio) - 5] = ":"
    /\ Str(Transcriber_format_timestamp(Rat(36619, 10))) = "01:01:01"
    /\ Str(Analyzer_format_timestamp(Rat(36619, 10))) = "01:01:01"

\* a formatted input of 100 hours or more, with a fraction, whose minutes are not 0
C7_Witness ==
    /\ pout.done /\ pin.fn = "format_timestamp"
    /\ pin.seconds.n % pin.seconds.d # 0
    /\ WholeSeconds(pin.seconds) >= 100 * 3600
    /\ Str(pout.audio) = "100:59:09"
    /\ Str(pout.vision) = "100:59:09"

----------------------------------------------------------------------------
(* Specification SpecKf: the keyframe sampler on its own *)

FpsDen == 4

MaxFpsNum == 14

MaxInterval == 3

MaxFrames == 8

KfVideos ==
    [opened : BOOLEAN, fps : {Rat(k, FpsDen) : k \in 0..MaxFpsNum}, nframes : 0..MaxFrames]

InitKf ==
    /\ PipeIdle
    /\ \E v \in KfVideos, i \in 1..MaxInterval :
            pin = [fn |-> "extract_keyframes", video |-> v, interval_seconds |-> i]
    /\ pout = Pending

CallExtractKeyframes ==
    /\ pin.fn = "extract_keyframes"
    /\ pout = Pending
    /\ pout' = [done |-> TRUE] @@ extract_keyframes(pin.video, pin.interval_seconds)
    /\ UNCHANGED <<pipeVars, pin>>

NextKf == CallExtractKeyframes

SpecKf == InitKf /\ [][NextKf]_vars

CeilDiv(a, b) == (a + b - 1) \div b

RoundedInterval(video, i) == PyRound(Rat(video.fps.n * i, video.fps.d))

\* C8: for F > 0 and I >= 1 the sampler emits exactly ceil(totalFrames / round(F*I))
\* keyframes, with non-decreasing timestamps exactly round(F*I)/F seconds apart.
\* Stated for the calls that return, on inputs where round(F*I) >= 1.
C8_CountAndSpacingRound ==
    (/\ pout.done /\ pin.fn = "extract_keyframes"
     /\ pin.video.opened /\ pin.video.fps.n > 0 /\ pout.ok
     /\ RoundedInterval(pin.video, pin.interval_seconds) >= 1)
    => LET r == RoundedInterval(pin.video, pin.interval_seconds)
           F == pin.video.fps
       IN  /\ Len(pout.value) = CeilDiv(pin.video.nframes, r)
           /\ \A k \in 1..(Len(pout.value) - 1) :
                /\ RatLeq(pout.value[k].timestamp, pout.value[k + 1].timestamp)
                /\ RatEq(RatSub(pout.value[k + 1].timestamp, pout.value[k].timestamp),
                         Rat(r * F.d, F.n))

\* the frames i of 0..n-1 with i mod frame_interval = 0, in decode order, each
\* with the timestamp i / F
RECURSIVE SelectedFrames(_, _, _, _)
SelectedFrames(i, n, frame_interval, F) ==
    IF i >= n THEN <<>>
    ELSE (IF i % frame_interval = 0
          THEN <<[timestamp |-> Rat(i * F.d, F.n), frame |-> i]>>
          ELSE <<>>) \o SelectedFrames(i + 1, n, frame_interval, F)

OpenedCallReturned == pout.done /\ pin.fn = "extract_keyframes" /\ pin.video.opened

CodeInterval == FrameInterval(CapGetFps(pin.video), pin.interval_seconds)

\* C17: the frame interval is at least 1 for every frame rate and interval, so
\* the modulo test never divides by zero, also when F is 0 or F * I < 1.
\* Stated for the calls that decode at least one frame.
C17_IntervalNeverZero ==
    (OpenedCallReturned /\ pin.video.nframes >= 1) => CodeInterval >= 1 /\ pout.ok

\* C18: every decoded frame i is emitted if and only if i mod frame_interval = 0,
\* with timestamp i / F, and the keyframes are in decode order.
C18_EmitsEveryIntervalFrame ==
    OpenedCallReturned =>
        /\ pout.ok
        /\ \/ pin.video.nframes = 0 /\ pout.value = <<>>
           \/ /\ pin.video.nframes >= 1
              /\ pout.value = SelectedFrames(0, pin.video.nframes, CodeInterval, pin.video.fps)

\* C19: when the reads of an opened stream stop after k frames, the call returns
\* normally, raising nothing, with keyframes taken from those first k frames
\* only, the first of them frame 0.
C19_EarlyStopReturnsPartial ==
    OpenedCallReturned =>
        /\ pout.ok
        /\ pout.released
        /\ \A j \in 1..Len(pout.value) : pout.value[j].frame < pin.video.nframes
        /\ pin.video.nframes >= 1 => Len(pout.value) >= 1 /\ pout.value[1].frame = 0

\* the sampler's behaviour on the calls whose frame interval is not 0
KfReturningCallsSelect ==
    (OpenedCallReturned /\ CodeInterval >= 1) =>
        /\ pout.ok /\ pout.released
        /\ pout.value = SelectedFrames(0, pin.video.nframes, CodeInterval, pin.video.fps)

----------------------------------------------------------------------------
\* C24: every capture that extract_keyframes opened has been released when the
\* call ends, whether it returns, stops early at the end of the stream, or
\* raises.
C24_CaptureAlwaysReleased ==
    (pout.done /\ pin.fn = "extract_keyframes" /\ pin.video.opened) => pout.released

\* every call that returns has released its capture
ReturningCallsRelease ==
    (pout.done /\ pin.fn = "extract_keyframes" /\ pout.ok) => pout.released

(* Specification SpecTr: the transcript and visual formatters on their own *)

MaxSegs == 2

MaxAnalyses == 2

RECURSIVE SeqsUpTo(_, _)
\* the sequences over S of length at most n
SeqsUpTo(S, n) ==
    IF n = 0 THEN {<<>>}
    ELSE LET shorter == SeqsUpTo(S, n - 1)
         IN  shorter \cup {Append(q, x) : q \in shorter, x \in S}

\* segment texts: empty, one word, padded with blanks, and holding a line break
SegTexts == {<<>>, <<"hello world">>, <<" ", "a", " ">>, <<"a", "\n", "b">>}

SegStarts == {Rat(0, 1), Rat(36619, 10)}

SegInputs == {[start |-> t, end |-> Rat(t.n + 5 * t.d, t.d), text |-> x] : t \in SegStarts, x \in SegTexts}

\* "other" stands for every value that is neither "long" nor "timestamped"
FormatInputs == {"long", "timestamped", "other"}

Description(text, n) == [text |-> <<text>>, confidence |-> Rat(n, 1000)]

DescriptionLists ==
    { <<>>,
      <<Description("a presentation", 900)>>,
      <<Description("a person speaking", 850), Description("a lecture", 100),
        Description("a whiteboard", 50)>> }

\* softmax outputs over the twelve labels: one clear winner, two labels that
\* tie for the first place, and a winner that is the last label
ProbInputs ==
    { <<1, 900, 1, 1, 60, 1, 1, 1, 1, 1, 31, 1>>,
      <<425, 1, 141, 1, 1, 1, 1, 1, 1, 425, 1, 1>>,
      <<1, 1, 1, 100, 1, 1, 46, 1, 1, 1, 1, 846>> }

\* keyframes as extract_keyframes returns them, each with the scores of its frame
KeyframeInputs ==
    {[timestamp |-> t, probs |-> p] : t \in {Rat(0, 1), Rat(5, 1)}, p \in ProbInputs}

AnalysisInputs ==
    {[timestamp |-> t, analysis |-> [descriptions |-> ds]] :
        t \in {Rat(0, 1), Rat(5, 1)}, ds \in DescriptionLists}

InitTr ==
    /\ PipeIdle
    /\ pout = Pending
    /\ \/ \E segs \in SeqsUpTo(SegInputs, MaxSegs), f \in FormatInputs :
            pin = [fn |-> "format_transcript", segments |-> segs, format_type |-> f]
       \/ \E as \in SeqsUpTo(AnalysisInputs, MaxAnalyses) :
            pin = [fn |-> "format_visual_content", analyses |-> as]
       \/ \E response \in SeqsUpTo(SegInputs, MaxSegs), f \in FormatInputs :
            pin = [fn |-> "transcribe_audio", response |-> response, format_type |-> f]
       \/ \E keyframes \in SeqsUpTo(KeyframeInputs, MaxAnalyses), f \in FormatInputs :
            pin = [fn |-> "analyze_keyframes", keyframes |-> keyframes, format_type |-> f]

CallFormatTranscript ==
    /\ pin.fn = "format_transcript"
    /\ pout = Pending
    /\ pout' = [done |-> TRUE] @@ format_transcript(pin.segments, pin.format_type)
    /\ UNCHANGED <<pipeVars, pin>>

CallFormatVisualContent ==
    /\ pin.fn = "format_visual_content"
    /\ pout = Pending
    /\ pout' = [done |-> TRUE] @@ format_visual_content(pin.analyses)
    /\ UNCHANGED <<pipeVars, pin>>

\* lines 42-46 of main(): the segments transcribe_audio builds from the service
\* response are handed to format_transcript
CallTranscribeAndFormat ==
    /\ pin.fn = "transcribe_audio"
    /\ pout = Pending
    /\ pout' = [done |-> TRUE, segments |-> StrippedSegments(pin.response)]
                @@ format_transcript(StrippedSegments(pin.response), pin.format_type)
    /\ UNCHANGED <<pipeVars, pin>>

\* lines 49-50 of main(): what analyze_keyframes returns is handed to
\* format_visual_content; the format of the run is not an argument of either
CallAnalyzeAndFormat ==
    /\ pin.fn = "analyze_keyframes"
    /\ pout = Pending
    /\ \E visual_analyses \in analyze_keyframes(pin.keyframes) :
            pout' = [done |-> TRUE, analyses |-> visual_analyses]
                        @@ format_visual_content(visual_analyses)
    /\ UNCHANGED <<pipeVars, pin>>

NextTr ==
    \/ CallFormatTranscript
    \/ CallFormatVisualContent
    \/ CallTranscribeAndFormat
    \/ CallAnalyzeAndFormat

SpecTr == InitTr /\ [][NextTr]_vars

ExpectedTranscriptLine(segment) ==
    <<"[">> \o ExpectedTimestamp(segment.start) \o <<"]", " ">> \o segment.text

LinesMatchSegments(text, segments) ==
    LET lines == SplitOn(text, "\n", <<>>)
    IN  /\ Len(lines) = Len(segments)
        /\ \A k \in 1..Len(segments) : lines[k] = ExpectedTranscriptLine(segments[k])

TimestampedCallReturned ==
    pout.done /\ pin.fn = "format_transcript" /\ pin.format_type = "timestamped"

\* C9 as claimed: for format 'timestamped' and any sequence of segments, splitting
\* the output on newline yields one line per segment, in input order, line k being
\* "[" + formatted start of segment k + "] " + the text of segment k.
C9_LinesMatchAnySegments ==
    TimestampedCallReturned => pout.ok /\ LinesMatchSegments(pout.value, pin.segments)

NoLineBreak(text) == \A k \in 1..Len(text) : text[k] # "\n"

\* C9 as amended: the same, for a non-empty sequence of segments none of whose
\* texts holds a newline.
C9_LinesMatchPlainSegments ==
    (/\ TimestampedCallReturned
     /\ pin.segments # <<>>
     /\ \A k \in 1..Len(pin.segments) : NoLineBreak(pin.segments[k].text))
    => pout.ok /\ LinesMatchSegments(pout.value, pin.segments)

\* two segments with different starts and texts, one of them empty, formatted
C9_Witness ==
    /\ TimestampedCallReturned
    /\ Len(pin.segments) = 2
    /\ pin.segments[1].start # pin.segments[2].start
    /\ pin.segments[1].text = <<>> /\ pin.segments[2].text = <<"hello world">>
    /\ NoLineBreak(pin.segments[1].text) /\ NoLineBreak(pin.segments[2].text)
    /\ Len(SplitOn(pout.value, "\n", <<>>)) = 2

\* C10: an empty input sequence is no error for the formatting stages:
\* format_transcript([]) is the empty string for 'long' and for 'timestamped',
\* and format_visual_content([]) is the empty string, without raising.
C10_EmptyInputEmptyOutput ==
    /\ (pout.done /\ pin.fn = "format_transcript" /\ pin.segments = <<>>)
            => pout.ok /\ pout.value = <<>>
    /\ (pout.done /\ pin.fn = "format_visual_content" /\ pin.analyses = <<>>)
            => pout.ok /\ pout.value = <<>>

C10_Witness ==
    /\ pout.done /\ pin.fn = "format_transcript"
    /\ pin.segments = <<>> /\ pin.format_type = "timestamped"
    /\ pout.ok /\ Str(pout.value) = ""

----------------------------------------------------------------------------
(* Specification SpecPr: the prompt builder on its own.  One step calls it  *)
(* with the arguments drawn, and with the same texts for each of the two   *)
(* formats, so that the prompts can be compared.                           *)

PromptTranscripts ==
    { <<>>,
      <<"hello world">>,
      <<"hello", " ", "world", " ", "again">>,
      <<"[", "0", "0", ":", "0", "0", ":", "0", "0", "]", " ", "a", NL, "b">>,
      <<"Instructions:", NL, "Create a timestamped summary with key points and their timestamps.">> }

PromptVisuals ==
    { <<>>,
      <<"[", "0", "0", ":", "0", "0", ":", "0", "0", "]", " ", "a presentation", " ",
        "(confidence: ", "0", ".", "9", "0", ")">>,
      <<"Transcript:", NL, "x">>,
      <<NL, NL, "Summary:">> }

InitPr ==
    /\ PipeIdle
    /\ pout = Pending
    /\ \/ \E t \in PromptTranscripts, v \in PromptVisuals, f \in FormatInputs :
            pin = [fn |-> "construct_prompt", transcript |-> t, visual_content |-> v,
                   format_type |-> f]
       \/ \E response \in SeqsUpTo(SegInputs, MaxSegs), v \in PromptVisuals,
              f \in FormatInputs :
            pin = [fn |-> "format_and_build", response |-> response, visual_content |-> v,
                   format_type |-> f]

CallConstructPrompt ==
    /\ pin.fn = "construct_prompt"
    /\ pout = Pending
    /\ pout' = [done |-> TRUE,
                value |-> construct_prompt(pin.transcript, pin.visual_content, pin.format_type),
                long |-> construct_prompt(pin.transcript, pin.visual_content, "long"),
                timestamped |->
                    construct_prompt(pin.transcript, pin.visual_content, "timestamped")]
    /\ UNCHANGED <<pipeVars, pin>>

\* lines 43-57 of main(): one format value goes to format_transcript and, with
\* the transcript it returned, to the prompt builder
CallFormatAndBuild ==
    /\ pin.fn = "format_and_build"
    /\ pout = Pending
    /\ LET transcript_segments == StrippedSegments(pin.response)
           transcript == format_transcript(transcript_segments, pin.format_type).value
       IN  pout' = [done |-> TRUE, segments |-> transcript_segments,
                    transcript |-> transcript,
                    value |-> construct_prompt(transcript, pin.visual_content,
                                               pin.format_type)]
    /\ UNCHANGED <<pipeVars, pin>>

NextPr == CallConstructPrompt \/ CallFormatAndBuild

SpecPr == InitPr /\ [][NextPr]_vars

LongInstruction == "Create a comprehensive summary of the video content."

TimestampedInstruction == "Create a timestamped summary with key points and their timestamps."

DifferingLines(a, b) == {k \in 1..Len(a) : a[k] # b[k]}

\* C11: for any transcript and visual content, the prompt for 'long' and the
\* prompt for 'timestamped' have the same lines except one, the instruction
\* line under "Instructions:"; and the call with the arguments drawn returns
\* the same text as the call made for its format in the comparison.
C11_OnlyInstructionLineDiffers ==
    (pout.done /\ pin.fn = "construct_prompt") =>
        LET a == PromptLines(pout.long)
            b == PromptLines(pout.timestamped)
        IN  /\ Len(a) = Len(b)
            /\ Cardinality(DifferingLines(a, b)) = 1
            /\ \A k \in DifferingLines(a, b) :
                /\ k > 1 /\ a[k - 1] = <<"Instructions:">> /\ b[k - 1] = <<"Instructions:">>
                /\ a[k] = <<LongInstruction>>
                /\ b[k] = <<TimestampedInstruction>>
            /\ pin.format_type = "long" => pout.value = pout.long
            /\ pin.format_type = "timestamped" => pout.value = pout.timestamped

\* a prompt built for a transcript that itself holds the timestamped instruction
C11_Witness ==
    /\ pout.done /\ pin.fn = "construct_prompt"
    /\ pin.format_type = "timestamped"
    /\ pin.transcript # <<>> /\ pin.transcript[1] = "Instructions:"
    /\ pin.visual_content # <<>>
    /\ pout.long # pout.timestamped

----------------------------------------------------------------------------
(* Claims about format_visual_content, under SpecTr *)

HasEmptyDescriptions(analyses) ==
    \E k \in 1..Len(analyses) : analyses[k].analysis.descriptions = <<>>

\* C13: a frame analysis whose description list is empty makes
\* format_visual_content fail: the call raises and returns no text, so no
\* output exists in which that entry was skipped.
C13_EmptyDescriptionsFail ==
    (pout.done /\ pin.fn = "format_visual_content" /\ HasEmptyDescriptions(pin.analyses))
        => ~pout.ok /\ pout.error = <<"IndexError">>

\* a well-formed entry followed by one without descriptions
C13_Witness ==
    /\ pout.done /\ pin.fn = "format_visual_content"
    /\ Len(pin.analyses) = 2
    /\ pin.analyses[1].analysis.descriptions # <<>>
    /\ pin.analyses[2].analysis.descriptions = <<>>
    /\ ~pout.ok

----------------------------------------------------------------------------
(* Claims about the 'long' transcript, under SpecTr *)

\* a text without leading or trailing blanks and line breaks
Trimmed(text) ==
    text = <<>> \/ (~IsSpace(text[1]) /\ ~IsSpace(text[Len(text)]))

\* the trimmed form of a text: its longest stretch that starts and ends with a
\* piece that is no white space
TrimOf(text) ==
    LET solid == {k \in 1..Len(text) : ~IsSpace(text[k])}
    IN  IF solid = {} THEN <<>>
        ELSE SubSeq(text, CHOOSE a \in solid : \A b \in solid : a <= b,
                          CHOOSE a \in solid : \A b \in solid : a >= b)

TrimmedTextsJoined(segments) ==
    JoinWith(<<" ">>, [k \in 1..Len(segments) |-> TrimOf(segments[k].text)])

\* C20 as claimed: for format 'long' and any sequence of segments,
\* format_transcript returns the segments' trimmed texts joined by exactly one
\* space, in input order, with no timestamp.
C20_LongJoinsTrimmedTexts ==
    (pout.done /\ pin.fn = "format_transcript" /\ pin.format_type = "long")
        => pout.ok /\ pout.value = TrimmedTextsJoined(pin.segments)

\* C20 as amended: for format 'long' and the segments transcribe_audio returns
\* for any service response, whose texts it has trimmed, format_transcript
\* returns those texts joined by exactly one space, in input order, with no
\* timestamp.
C20_LongJoinsTranscribedTexts ==
    (pout.done /\ pin.fn = "transcribe_audio" /\ pin.format_type = "long")
        => /\ pout.ok
           /\ \A k \in 1..Len(pout.segments) : Trimmed(pout.segments[k].text)
           /\ pout.value = TrimmedTextsJoined(pin.response)

\* a response of two segments, the first padded with blanks, formatted as 'long'
C20_Witness ==
    /\ pout.done /\ pin.fn = "transcribe_audio" /\ pin.format_type = "long"
    /\ Len(pin.response) = 2
    /\ pin.response[1].text = <<" ", "a", " ">>
    /\ pin.response[2].text = <<"hello world">>
    /\ pin.response[1].start # pin.response[2].start
    /\ Str(pout.value) = "a hello world"

----------------------------------------------------------------------------
(* Claims about the lines of the visual content, under SpecTr *)

\* a call of format_visual_content has returned or raised: on its own, or on
\* what analyze_keyframes returned
VisualCallDone ==
    pout.done /\ pin.fn \in {"format_visual_content", "analyze_keyframes"}

\* the frame analyses the formatter was given
GivenAnalyses ==
    IF pin.fn = "analyze_keyframes" THEN pout.analyses ELSE pin.analyses

\* the descriptions of an entry that no other description of it outranks
HighestConfidence(entry) ==
    LET ds == entry.analysis.descriptions
    IN  {ds[j] : j \in {j \in 1..Len(ds) :
                    \A i \in 1..Len(ds) : RatLeq(ds[i].confidence, ds[j].confidence)}}

\* the line of an entry reduced to its timestamp and one description
LineOf(entry, description) ==
    VisualLine([timestamp |-> entry.timestamp,
                analysis |-> [descriptions |-> <<description>>]])

\* C21: for frame analyses with non-empty description lists,
\* format_visual_content returns as many lines as there are entries, in input
\* order, joined by newline (the empty text for no entry), and line k is the
\* line of entry k's timestamp and of a highest-confidence description of
\* entry k alone; this is so for every format of the run.
C21_OneLinePerEntryTopOnly ==
    (VisualCallDone /\ ~HasEmptyDescriptions(GivenAnalyses)) =>
        /\ pout.ok
        /\ GivenAnalyses = <<>> => pout.value = <<>>
        /\ GivenAnalyses # <<>> =>
            LET lines == PromptLines(pout.value)
            IN  /\ Len(lines) = Len(GivenAnalyses)
                /\ \A k \in 1..Len(lines) :
                    \E d \in HighestConfidence(GivenAnalyses[k]) :
                        lines[k] = LineOf(GivenAnalyses[k], d)

\* two frames analysed in a run of format 'timestamped', the first with three
\* descriptions of different confidence, the second with a tie for the first
\* place; each line shows the winner of its frame
C21_Witness ==
    /\ pout.done /\ pin.fn = "analyze_keyframes" /\ pin.format_type = "timestamped"
    /\ Len(pin.keyframes) = 2
    /\ pin.keyframes[1].timestamp = Rat(0, 1) /\ pin.keyframes[2].timestamp = Rat(5, 1)
    /\ Len(pout.analyses[1].analysis.descriptions) = TopCount
    /\ Cardinality(HighestConfidence(pout.analyses[2])) = 2
    /\ pout.ok
    /\ Str(pout.value)
         = "[00:00:00] a presentation (confidence: 0.90)\n[00:00:05] a computer screen (confidence: 0.42)"

----------------------------------------------------------------------------
(* Claims about the instruction of the prompt, under SpecPr *)

\* the lines the template puts after the instruction: three of guidance, an
\* empty one and the closing heading
LinesAfterInstruction == 5

\* the instruction line of a prompt, counted from its end, since the transcript
\* and the visual content before it may hold any number of lines
InstructionLine(prompt) ==
    LET lines == PromptLines(prompt)
    IN  lines[Len(lines) - LinesAfterInstruction]

HeadingOfInstruction(prompt) ==
    LET lines == PromptLines(prompt)
    IN  lines[Len(lines) - LinesAfterInstruction - 1]

\* C22: the instruction line of the prompt, the line under the last
\* "Instructions:" heading, is the timestamped instruction exactly when the
\* format is 'timestamped', and the comprehensive instruction for 'long' and
\* for every other format value.
C22_InstructionFollowsFormat ==
    (pout.done /\ pin.fn = "construct_prompt") =>
        /\ HeadingOfInstruction(pout.value) = <<"Instructions:">>
        /\ InstructionLine(pout.value) \in {<<TimestampedInstruction>>, <<LongInstruction>>}
        /\ InstructionLine(pout.value) = <<TimestampedInstruction>>
                <=> pin.format_type = "timestamped"

\* a prompt for a format that is neither 'long' nor 'timestamped', over a
\* transcript that quotes the timestamped instruction
C22_Witness ==
    /\ pout.done /\ pin.fn = "construct_prompt"
    /\ pin.format_type = "other"
    /\ \E k \in 1..Len(pin.transcript) : pin.transcript[k] = TimestampedInstruction
    /\ InstructionLine(pout.value) = <<LongInstruction>>

----------------------------------------------------------------------------
(* Claims about the format threaded through a run, under SpecPr *)

\* the transcript is the timestamp-prefixed rendering of the segments
TimestampPrefixed(transcript, segments) ==
    transcript = JoinWith(<<NL>>, [k \in 1..Len(segments) |-> ExpectedTranscriptLine(segments[k])])

\* a transcript was formatted and the prompt built with one format value; with
\* no segment the two renderings are the same empty text
FormatAndBuildDone ==
    pout.done /\ pin.fn = "format_and_build" /\ pin.response # <<>>

AgreeOnKnownFormats ==
    (FormatAndBuildDone /\ pin.format_type \in {"long", "timestamped"}) =>
        (TimestampPrefixed(pout.transcript, pout.segments)
            <=> InstructionLine(pout.value) = <<TimestampedInstruction>>)

====
